---- MODULE Spec2Model ----
(***************************************************************************)
(* Host-function environment of the wevm contract VM.                      *)
(*                                                                         *)
(* State: the call stack (one frame per running contract invocation, each  *)
(* with its own execution context: staged args, staged payments, linear    *)
(* memory), the last host-function event, and the top-level outcome.       *)
(* One action per host function of env/call_contract.rs and env/utils.rs;  *)
(* the guest program is arbitrary: at every step the running frame may     *)
(* call any host function with any input, return, or trap.                 *)
(***************************************************************************)
EXTENDS Integers, Sequences, FiniteSets, TLC

VARIABLES frames, last, outcome

vars == <<frames, last, outcome>>

(***************************************************************************)
(* Bounds of the model.                                                    *)
(***************************************************************************)
\* Bytes of linear memory of one frame (the tests give a frame one page).
MemSize == 2
\* Staged entries (args and payment declarations together) per frame.
MaxStaged == 2
\* Frames the model lets the call stack hold.
DepthBound == 3

(***************************************************************************)
(* Guest memory and the inputs the guest passes.                           *)
(***************************************************************************)
\* The data segment every contract is instantiated with: "X", then 0xFF.
MemByte(i) == CASE i = 0 -> 88 [] i = 1 -> 255 [] OTHER -> 0

MemInit == [i \in 0..(MemSize - 1) |-> MemByte(i)]

\* (offset, length) pairs a guest passes: "X", the byte 0xFF, one byte past the end.
Regions == {<<0, 1>>, <<1, 1>>, <<MemSize, 1>>}

IntValues == {2}
BoolValues == {1}
Amounts == {-1, 0, 3, 4}

\* &memory[offset..offset + length]: the index is in range
InBounds(mem, offset, length) == offset + length <= Cardinality(DOMAIN mem)

\* &memory[offset..offset + length], for an index in range
MemSlice(mem, offset, length) == [i \in 1..length |-> mem[offset + i - 1]]

IsCont(b) == b >= 128 /\ b <= 191

\* str::from_utf8(bytes).is_ok()
RECURSIVE IsUtf8(_)
IsUtf8(s) ==
    IF s = <<>> THEN TRUE
    ELSE LET b == s[1]
             n == Len(s)
         IN  IF b < 128 THEN IsUtf8(Tail(s))
             ELSE IF b >= 194 /\ b <= 223
                  THEN n >= 2 /\ IsCont(s[2]) /\ IsUtf8(SubSeq(s, 3, n))
             ELSE IF b >= 224 /\ b <= 239
                  THEN /\ n >= 3
                       /\ IsCont(s[2]) /\ IsCont(s[3])
                       /\ (b = 224 => s[2] >= 160)
                       /\ (b = 237 => s[2] <= 159)
                       /\ IsUtf8(SubSeq(s, 4, n))
             ELSE IF b >= 240 /\ b <= 244
                  THEN /\ n >= 4
                       /\ IsCont(s[2]) /\ IsCont(s[3]) /\ IsCont(s[4])
                       /\ (b = 240 => s[2] >= 144)
                       /\ (b = 244 => s[2] <= 143)
                       /\ IsUtf8(SubSeq(s, 5, n))
             ELSE FALSE

(***************************************************************************)
(* Error encoding.                                                         *)
(***************************************************************************)
\* Error::as_i32 and `RuntimeError::X as i32`: the error's numeric code.  The
\* enumerations are declared outside the files at hand; the numbers stand for
\* their discriminants, one per error, in the i32 range of a guest result.
as_i32(error) ==
    CASE error = "InvalidBytecode" -> 100
      [] error = "FuelExhausted" -> 110
      [] error = "ContractNotFound" -> 200
      [] error = "SettlementError" -> 201
      [] error = "MemoryNotFound" -> 300
      [] error = "Utf8Error" -> 301
      [] error = "Base58Error" -> 302
      [] error = "InvalidResult" -> 303

(***************************************************************************)
(* Data entries, the payment ledger, the execution context.                *)
(***************************************************************************)
Integer(value) == [type |-> "Integer", value |-> value]
Boolean(value) == [type |-> "Boolean", value |-> value]
Binary(bytes) == [type |-> "Binary", value |-> bytes]
String(bytes) == [type |-> "String", value |-> bytes]

EmptyLedger == [a \in {} |-> 0]

\* ctx.payments.push(asset_id, amount): the amount is added to the asset's entry
PaymentsPush(payments, asset_id, amount) ==
    IF asset_id \in DOMAIN payments
    THEN [payments EXCEPT ![asset_id] = @ + amount]
    ELSE payments @@ (asset_id :> amount)

\* ctx.args_and_payments(): the staged args and payments, both taken out of ctx
args_and_payments(ctx) ==
    [input_data |-> ctx.args,
     payments |-> ctx.payments,
     ctx |-> [ctx EXCEPT !.args = <<>>, !.payments = EmptyLedger,
                         !.payLog = <<>>, !.argMark = 0, !.payMark = 0]]

(***************************************************************************)
(* The input-data wire format: a two-byte count, then one record per entry *)
(* made of a length-prefixed key (empty for a staged argument), a one-byte *)
(* type tag and the value: 8 bytes for Integer, 4 for Boolean, a four-byte *)
(* length and the bytes for Binary and String.  Numbers are big-endian.    *)
(***************************************************************************)
RECURSIVE BE(_, _)
BE(v, n) == IF n = 0 THEN <<>> ELSE Append(BE(v \div 256, n - 1), v % 256)

RECURSIVE UnsignedBE(_)
UnsignedBE(b) ==
    IF b = <<>> THEN 0
    ELSE UnsignedBE(SubSeq(b, 1, Len(b) - 1)) * 256 + b[Len(b)]

SignedBE(b) ==
    IF b[1] >= 128
    THEN -UnsignedBE([i \in 1..Len(b) |-> 255 - b[i]]) - 1
    ELSE UnsignedBE(b)

TypeTag(type) ==
    CASE type = "Integer" -> 0
      [] type = "Boolean" -> 1
      [] type = "Binary" -> 2
      [] type = "String" -> 3

EntryBytes(entry) ==
    <<0, 0>> \o <<TypeTag(entry.type)>> \o
    (CASE entry.type = "Integer" -> BE(entry.value, 8)
       [] entry.type = "Boolean" -> BE(entry.value, 4)
       [] OTHER -> BE(Len(entry.value), 4) \o entry.value)

RECURSIVE ConcatEntries(_)
ConcatEntries(entries) ==
    IF entries = <<>> THEN <<>>
    ELSE EntryBytes(entries[1]) \o ConcatEntries(Tail(entries))

\* what the caller produces from the drained args
Serialize(entries) == BE(Len(entries), 2) \o ConcatEntries(entries)

DecodeFailed == [ok |-> FALSE, entries |-> <<>>]

\* the n records that start at position pos
RECURSIVE DecodeEntries(_, _, _)
DecodeEntries(bytes, pos, n) ==
    IF n = 0 THEN [ok |-> TRUE, entries |-> <<>>]
    ELSE IF pos + 1 > Len(bytes) THEN DecodeFailed
    ELSE
    LET tpos == pos + 2 + UnsignedBE(SubSeq(bytes, pos, pos + 1))
    IN  IF tpos > Len(bytes) THEN DecodeFailed
        ELSE
        LET tag == bytes[tpos]
            head == CASE tag = 0 -> 8 [] tag = 1 -> 4 [] OTHER -> 4
        IN  IF tag > 3 \/ tpos + head > Len(bytes) THEN DecodeFailed
            ELSE
            LET number == SubSeq(bytes, tpos + 1, tpos + head)
                size == IF tag >= 2 THEN UnsignedBE(number) ELSE 0
                body == SubSeq(bytes, tpos + head + 1, tpos + head + size)
            IN  IF tpos + head + size > Len(bytes) THEN DecodeFailed
                ELSE
                LET entry == CASE tag = 0 -> Integer(SignedBE(number))
                               [] tag = 1 -> Boolean(SignedBE(number))
                               [] tag = 2 -> Binary(body)
                               [] tag = 3 -> String(body)
                    rest == DecodeEntries(bytes, tpos + head + size + 1, n - 1)
                IN  IF rest.ok
                    THEN [ok |-> TRUE, entries |-> <<entry>> \o rest.entries]
                    ELSE DecodeFailed

\* what the callee's argument decoder reads from its input data
Deserialize(bytes) ==
    IF bytes = <<>> THEN [ok |-> TRUE, entries |-> <<>>]
    ELSE IF Len(bytes) < 2 THEN DecodeFailed
    ELSE DecodeEntries(bytes, 3, UnsignedBE(SubSeq(bytes, 1, 2)))

\* A frame as Stack/Vm instantiates it: the contract, its memory (absent when
\* the bytecode declares none) and an empty execution context.  payLog, argMark,
\* payMark and callDepth are history: the payment declarations since the last
\* drain, how many args and declarations were already staged when this frame's
\* previous CallContract returned, and the depth at which its pending
\* CallContract was entered.
NewFrame(contract_id, hasMem) ==
    [contract |-> contract_id, hasMem |-> hasMem, mem |-> MemInit,
     args |-> <<>>, payments |-> EmptyLedger,
     payLog |-> <<>>, argMark |-> 0, payMark |-> 0, callDepth |-> 0]

(***************************************************************************)
(* External collaborators: registry, settlement, callee outcomes.          *)
(***************************************************************************)
KnownContracts == {<<88>>}

\* ctx.stack.get_bytecode(contract_id)
get_bytecode(contract_id) ==
    IF contract_id \in KnownContracts
    THEN [ok |-> TRUE, error |-> "none"]
    ELSE [ok |-> FALSE, error |-> "ContractNotFound"]

\* what ctx.stack.add_payments(contract_id, &payments) may answer
SettleResults == {[ok |-> TRUE, error |-> "none"],
                  [ok |-> FALSE, error |-> "SettlementError"]}

I32(v) == [ty |-> "I32", v |-> v]
I64(v) == [ty |-> "I64", v |-> v]
F32(v) == [ty |-> "F32", v |-> v]

\* what a guest function may return: no value, one value, two values
ResultValues == {I32(0), I32(1), I32(303), I64(0), F32(0)}
Results == {<<>>} \cup {<<v>> : v \in ResultValues}
                  \cup {<<I32(0), w>> : w \in {I32(0), I64(0)}}

\* why running a function may fail: the engine ran out of the invocation's fuel
\* (the guest may burn any amount of it between two host calls), or the
\* bytecode could not be instantiated or lacks the function
CallErrors == {"FuelExhausted", "InvalidBytecode"}

\* The frame pushed for a callee, and its removal when the callee is done.
PushFrame(stack, frame) == Append(stack, frame)

\* A faulty PopFrame, which C8 must tell apart: the callee's frame stays on the stack.
PopFrame_Skipped(stack) == stack

PopFrame(stack) == SubSeq(stack, 1, Len(stack) - 1)

(***************************************************************************)
(* The machine.                                                            *)
(***************************************************************************)
Top == frames[Len(frames)]

\* A faulty SetTop, which C12 must tell apart: one context shared by all frames.
SetTop_Shared(stack, f) == [stack EXCEPT ![1] = f]

SetTop(stack, f) == [stack EXCEPT ![Len(stack)] = f]

Running == outcome.kind = "Running"

NoEvent == [op |-> "none", ret |-> <<>>]

\* The runs of "_constructor": the parameter types the entry point declares
\* and the params handed to run.  TestKeyOne is one record, key "test_key",
\* Integer 1.
TestKeyOne == <<0, 1, 0, 8, 116, 101, 115, 116, 95, 107, 101, 121, 0,
                0, 0, 0, 0, 0, 0, 0, 1>>

EntryInputs == {[declared |-> <<>>, params |-> <<>>],
                [declared |-> <<"i32">>, params |-> TestKeyOne],
                [declared |-> <<"f32">>, params |-> TestKeyOne]}

\* The value of one declared parameter, taken from the entry decoded at its
\* position: integers and booleans fill i32 and i64 parameters.
SupplyParam(type, entries, i) ==
    IF /\ type \in {"i32", "i64"}
       /\ i <= Len(entries)
       /\ entries[i].type \in {"Integer", "Boolean"}
    THEN [ok |-> TRUE,
          value |-> IF type = "i32" THEN I32(entries[i].value) ELSE I64(entries[i].value)]
    ELSE [ok |-> FALSE, value |-> I32(0)]

\* Vm::run: the params are decoded and passed, in order, as the entry point's
\* parameters; an entry point that cannot be called with them is InvalidBytecode.
RunEntry(entry) ==
    LET decoded == Deserialize(entry.params)
        supplied == [i \in 1..Len(entry.declared) |->
                        SupplyParam(entry.declared[i], decoded.entries, i)]
    IN  IF decoded.ok /\ \A i \in 1..Len(supplied) : supplied[i].ok
        THEN [ok |-> TRUE, error |-> "none",
              passed |-> [i \in 1..Len(supplied) |-> supplied[i].value]]
        ELSE [ok |-> FALSE, error |-> "InvalidBytecode", passed |-> <<>>]

\* Vm::new(vec![], bytecode, ...) / Stack::new(bytecode, ...): one frame, then
\* run("_constructor", &params).
Init ==
    /\ \E hasMem \in BOOLEAN : frames = <<NewFrame(<<>>, hasMem)>>
    /\ \E entry \in EntryInputs :
          LET run == RunEntry(entry)
          IN  /\ last = [op |-> "Entry", ret |-> <<>>, declared |-> entry.declared,
                         params |-> entry.params, passed |-> run.passed]
              /\ outcome = [kind |-> IF run.ok THEN "Running" ELSE "Err",
                            values |-> <<>>, error |-> run.error]

\* An index out of range: the slice expression panics, the host function
\* returns nothing and the embedding process unwinds.
Panic(op, input) ==
    /\ outcome' = [kind |-> "Panic", values |-> <<>>, error |-> "none"]
    /\ last' = [op |-> op, ret |-> <<>>, input |-> input, panicked |-> TRUE]
    /\ UNCHANGED frames

\* The model's bound on what one frame stages.
CanStage(ctx) == Len(ctx.args) + Len(ctx.payLog) < MaxStaged

Staged(op, input, ret) ==
    [op |-> op, ret |-> ret, input |-> input, panicked |-> FALSE]

CallArgInt(value) ==
    /\ Running
    /\ CanStage(Top)
    /\ frames' = SetTop(frames, [Top EXCEPT !.args = Append(@, Integer(value))])
    /\ last' = Staged("CallArgInt", <<value>>, <<>>)
    /\ UNCHANGED outcome

\* A faulty CallArgBool, which C11 must tell apart: the entry is put in front.
CallArgBool_Prepends(value) ==
    /\ Running
    /\ CanStage(Top)
    /\ frames' = SetTop(frames, [Top EXCEPT !.args = <<Boolean(value)>> \o @])
    /\ last' = Staged("CallArgBool", <<value>>, <<>>)
    /\ UNCHANGED outcome

CallArgBool(value) ==
    /\ Running
    /\ CanStage(Top)
    /\ frames' = SetTop(frames, [Top EXCEPT !.args = Append(@, Boolean(value))])
    /\ last' = Staged("CallArgBool", <<value>>, <<>>)
    /\ UNCHANGED outcome

CallArgBinary(offset_value, length_value) ==
    /\ Running
    /\ \/ /\ ~Top.hasMem
          /\ last' = Staged("CallArgBinary", <<offset_value, length_value>>,
                            <<as_i32("MemoryNotFound")>>)
          /\ UNCHANGED <<frames, outcome>>
       \/ /\ Top.hasMem
          /\ ~InBounds(Top.mem, offset_value, length_value)
          /\ Panic("CallArgBinary", <<offset_value, length_value>>)
       \/ /\ Top.hasMem
          /\ InBounds(Top.mem, offset_value, length_value)
          /\ CanStage(Top)
          /\ LET value == MemSlice(Top.mem, offset_value, length_value)
             IN  frames' = SetTop(frames, [Top EXCEPT !.args = Append(@, Binary(value))])
          /\ last' = Staged("CallArgBinary", <<offset_value, length_value>>, <<0>>)
          /\ UNCHANGED outcome

CallArgString(offset_value, length_value) ==
    /\ Running
    /\ \/ /\ ~Top.hasMem
          /\ last' = Staged("CallArgString", <<offset_value, length_value>>,
                            <<as_i32("MemoryNotFound")>>)
          /\ UNCHANGED <<frames, outcome>>
       \/ /\ Top.hasMem
          /\ ~InBounds(Top.mem, offset_value, length_value)
          /\ Panic("CallArgString", <<offset_value, length_value>>)
       \/ /\ Top.hasMem
          /\ InBounds(Top.mem, offset_value, length_value)
          /\ CanStage(Top)
          /\ LET value == MemSlice(Top.mem, offset_value, length_value)
             IN  frames' = SetTop(frames, [Top EXCEPT !.args = Append(@, String(value))])
          /\ last' = Staged("CallArgString", <<offset_value, length_value>>, <<0>>)
          /\ UNCHANGED outcome

\* A faulty CallPayment, which C5 must tell apart: the declared amount replaces
\* the asset's entry instead of being pushed onto it.
CallPayment_Overwrites(offset_asset_id, length_asset_id, amount) ==
    /\ Running
    /\ \/ /\ ~Top.hasMem
          /\ last' = Staged("CallPayment", <<offset_asset_id, length_asset_id, amount>>,
                            <<as_i32("MemoryNotFound")>>)
          /\ UNCHANGED <<frames, outcome>>
       \/ /\ Top.hasMem
          /\ ~InBounds(Top.mem, offset_asset_id, length_asset_id)
          /\ Panic("CallPayment", <<offset_asset_id, length_asset_id>>)
       \/ /\ Top.hasMem
          /\ InBounds(Top.mem, offset_asset_id, length_asset_id)
          /\ CanStage(Top)
          /\ LET asset_id == MemSlice(Top.mem, offset_asset_id, length_asset_id)
             IN  frames' = SetTop(frames,
                     [Top EXCEPT !.payments = (asset_id :> amount) @@ @,
                                 !.payLog = Append(@, <<asset_id, amount>>)])
          /\ last' = Staged("CallPayment", <<offset_asset_id, length_asset_id, amount>>, <<0>>)
          /\ UNCHANGED outcome

CallPayment(offset_asset_id, length_asset_id, amount) ==
    /\ Running
    /\ \/ /\ ~Top.hasMem
          /\ last' = Staged("CallPayment", <<offset_asset_id, length_asset_id, amount>>,
                            <<as_i32("MemoryNotFound")>>)
          /\ UNCHANGED <<frames, outcome>>
       \/ /\ Top.hasMem
          /\ ~InBounds(Top.mem, offset_asset_id, length_asset_id)
          /\ Panic("CallPayment", <<offset_asset_id, length_asset_id>>)
       \/ /\ Top.hasMem
          /\ InBounds(Top.mem, offset_asset_id, length_asset_id)
          /\ CanStage(Top)
          /\ LET asset_id == MemSlice(Top.mem, offset_asset_id, length_asset_id)
             IN  frames' = SetTop(frames,
                     [Top EXCEPT !.payments = PaymentsPush(@, asset_id, amount),
                                 !.payLog = Append(@, <<asset_id, amount>>)])
          /\ last' = Staged("CallPayment", <<offset_asset_id, length_asset_id, amount>>, <<0>>)
          /\ UNCHANGED outcome

\* A faulty CallContractPre, which C7 must tell apart: the registry's error is
\* dropped and the call goes on.
CallContractPre_IgnoresRegistry(ctx, offset_contract_id, length_contract_id, offset_func_name, length_func_name) ==
    LET none == [kind |-> "return", stage |-> "memory",
                 ret |-> as_i32("MemoryNotFound"), error |-> "MemoryNotFound",
                 contract_id |-> <<>>, func_name |-> <<>>, region |-> <<>>,
                 input |-> <<offset_contract_id, length_contract_id,
                             offset_func_name, length_func_name>>]
    IN
    IF ~ctx.hasMem THEN none
    ELSE IF ~InBounds(ctx.mem, offset_contract_id, length_contract_id)
    THEN [none EXCEPT !.kind = "panic", !.stage = "contract_id", !.error = "none",
                      !.region = <<offset_contract_id, length_contract_id>>]
    ELSE
      LET contract_id == MemSlice(ctx.mem, offset_contract_id, length_contract_id) IN
      IF ~InBounds(ctx.mem, offset_func_name, length_func_name)
      THEN [none EXCEPT !.kind = "panic", !.stage = "func_name", !.error = "none",
                        !.contract_id = contract_id,
                        !.region = <<offset_func_name, length_func_name>>]
      ELSE
        LET func_name == MemSlice(ctx.mem, offset_func_name, length_func_name)
        IN
        IF ~IsUtf8(func_name)
        THEN [none EXCEPT !.stage = "func_name", !.ret = as_i32("Utf8Error"),
                          !.error = "Utf8Error", !.contract_id = contract_id]
        ELSE [none EXCEPT !.kind = "proceed", !.stage = "drain", !.ret = 0,
                          !.error = "none", !.contract_id = contract_id,
                          !.func_name = func_name]

\* A faulty CallContractPre, which C21 must tell apart: the function name is
\* decoded before the bytecode is resolved.
CallContractPre_NameFirst(ctx, offset_contract_id, length_contract_id, offset_func_name, length_func_name) ==
    LET none == [kind |-> "return", stage |-> "memory",
                 ret |-> as_i32("MemoryNotFound"), error |-> "MemoryNotFound",
                 contract_id |-> <<>>, func_name |-> <<>>, region |-> <<>>,
                 input |-> <<offset_contract_id, length_contract_id,
                             offset_func_name, length_func_name>>]
    IN
    IF ~ctx.hasMem THEN none
    ELSE IF ~InBounds(ctx.mem, offset_func_name, length_func_name)
    THEN [none EXCEPT !.kind = "panic", !.stage = "func_name", !.error = "none",
                      !.region = <<offset_func_name, length_func_name>>]
    ELSE
      LET func_name == MemSlice(ctx.mem, offset_func_name, length_func_name)
      IN
      IF ~IsUtf8(func_name)
      THEN [none EXCEPT !.stage = "func_name", !.ret = as_i32("Utf8Error"),
                        !.error = "Utf8Error"]
      ELSE IF ~InBounds(ctx.mem, offset_contract_id, length_contract_id)
      THEN [none EXCEPT !.kind = "panic", !.stage = "contract_id", !.error = "none",
                        !.region = <<offset_contract_id, length_contract_id>>]
      ELSE
        LET contract_id == MemSlice(ctx.mem, offset_contract_id, length_contract_id)
            bytecode == get_bytecode(contract_id)
        IN
        IF ~bytecode.ok
        THEN [none EXCEPT !.stage = "registry", !.ret = as_i32(bytecode.error),
                          !.error = bytecode.error, !.contract_id = contract_id]
        ELSE [none EXCEPT !.kind = "proceed", !.stage = "drain", !.ret = 0,
                          !.error = "none", !.contract_id = contract_id,
                          !.func_name = func_name]

\* CallContract up to the drain: memory, contract id, registry, function name.
\* kind is "return" (an early return of ret), "panic" (an index out of range)
\* or "proceed".
CallContractPre(ctx, offset_contract_id, length_contract_id, offset_func_name, length_func_name) ==
    LET none == [kind |-> "return", stage |-> "memory",
                 ret |-> as_i32("MemoryNotFound"), error |-> "MemoryNotFound",
                 contract_id |-> <<>>, func_name |-> <<>>, region |-> <<>>,
                 input |-> <<offset_contract_id, length_contract_id,
                             offset_func_name, length_func_name>>]
    IN
    IF ~ctx.hasMem THEN none
    ELSE IF ~InBounds(ctx.mem, offset_contract_id, length_contract_id)
    THEN [none EXCEPT !.kind = "panic", !.stage = "contract_id", !.error = "none",
                      !.region = <<offset_contract_id, length_contract_id>>]
    ELSE
      LET contract_id == MemSlice(ctx.mem, offset_contract_id, length_contract_id)
          bytecode == get_bytecode(contract_id)
      IN
      IF ~bytecode.ok
      THEN [none EXCEPT !.stage = "registry", !.ret = as_i32(bytecode.error),
                        !.error = bytecode.error, !.contract_id = contract_id]
      ELSE IF ~InBounds(ctx.mem, offset_func_name, length_func_name)
      THEN [none EXCEPT !.kind = "panic", !.stage = "func_name", !.error = "none",
                        !.contract_id = contract_id,
                        !.region = <<offset_func_name, length_func_name>>]
      ELSE
        LET func_name == MemSlice(ctx.mem, offset_func_name, length_func_name)
        IN
        IF ~IsUtf8(func_name)
        THEN [none EXCEPT !.stage = "func_name", !.ret = as_i32("Utf8Error"),
                          !.error = "Utf8Error", !.contract_id = contract_id]
        ELSE [none EXCEPT !.kind = "proceed", !.stage = "drain", !.ret = 0,
                          !.error = "none", !.contract_id = contract_id,
                          !.func_name = func_name]

\* The caller's context when CallContract hands control back to its guest:
\* what is staged now was staged before this invocation.
AfterCall(ctx) ==
    [ctx EXCEPT !.argMark = Len(ctx.args), !.payMark = Len(ctx.payLog),
                !.callDepth = 0]

\* The args and payment declarations staged since the frame's previous
\* CallContract invocation.
FreshArgs(ctx) == SubSeq(ctx.args, ctx.argMark + 1, Len(ctx.args))
FreshPays(ctx) == SubSeq(ctx.payLog, ctx.payMark + 1, Len(ctx.payLog))

\* The event of a CallContract that has handed its payments to settlement.
Handed(op, ctx, pre, drained, ret) ==
    [op |-> op, ret |-> ret, stage |-> IF op = "Dispatch" THEN "call" ELSE "settle",
     error |-> IF op = "Dispatch" THEN "none" ELSE "SettlementError",
     contract_id |-> pre.contract_id, func_name |-> pre.func_name,
     input_data |-> drained.input_data, payments |-> drained.payments,
     declared |-> ctx.payLog, freshArgs |-> FreshArgs(ctx), freshPays |-> FreshPays(ctx),
     settled |-> TRUE, called |-> op = "Dispatch",
     decoded |-> Deserialize(Serialize(drained.input_data)).entries,
     input |-> pre.input,
     depthAtEntry |-> Len(frames), panicked |-> FALSE]

\* A faulty CallContract, which C22 must tell apart: when settlement fails the
\* caller keeps what it had staged.
CallContract_KeepsOnSettleFailure(offset_contract_id, length_contract_id, offset_func_name, length_func_name) ==
    /\ Running
    /\ LET ctx == Top
           pre == CallContractPre(ctx, offset_contract_id, length_contract_id,
                                  offset_func_name, length_func_name)
           drained == args_and_payments(ctx)
       IN
       \/ /\ pre.kind = "panic"
          /\ Panic("CallContract", pre.region)
       \/ /\ pre.kind = "return"
          /\ frames' = SetTop(frames, AfterCall(ctx))
          /\ last' = [op |-> "CallContract", ret |-> <<pre.ret>>, stage |-> pre.stage,
                      error |-> pre.error, contract_id |-> pre.contract_id,
                      settled |-> FALSE, called |-> FALSE, input |-> pre.input,
                      depthAtEntry |-> Len(frames), panicked |-> FALSE]
          /\ UNCHANGED outcome
       \/ /\ pre.kind = "proceed"
          /\ \E settle \in SettleResults :
               \/ /\ ~settle.ok
                  /\ frames' = SetTop(frames, AfterCall(ctx))
                  /\ last' = Handed("CallContract", ctx, pre, drained,
                                    <<as_i32(settle.error)>>)
               \/ /\ settle.ok
                  /\ Len(frames) < DepthBound
                  /\ \E hasMem \in BOOLEAN :
                       frames' = PushFrame(
                           SetTop(frames, [drained.ctx EXCEPT !.callDepth = Len(frames)]),
                           NewFrame(pre.contract_id, hasMem))
                  /\ last' = Handed("Dispatch", ctx, pre, drained, <<>>)
          /\ UNCHANGED outcome

CallContract(offset_contract_id, length_contract_id, offset_func_name, length_func_name) ==
    /\ Running
    /\ LET ctx == Top
           pre == CallContractPre(ctx, offset_contract_id, length_contract_id,
                                  offset_func_name, length_func_name)
           drained == args_and_payments(ctx)
       IN
       \/ /\ pre.kind = "panic"
          /\ Panic("CallContract", pre.region)
       \/ /\ pre.kind = "return"
          /\ frames' = SetTop(frames, AfterCall(ctx))
          /\ last' = [op |-> "CallContract", ret |-> <<pre.ret>>, stage |-> pre.stage,
                      error |-> pre.error, contract_id |-> pre.contract_id,
                      settled |-> FALSE, called |-> FALSE, input |-> pre.input,
                      depthAtEntry |-> Len(frames), panicked |-> FALSE]
          /\ UNCHANGED outcome
       \/ /\ pre.kind = "proceed"
          /\ \E settle \in SettleResults :
               \/ /\ ~settle.ok
                  /\ frames' = SetTop(frames, AfterCall(drained.ctx))
                  /\ last' = Handed("CallContract", ctx, pre, drained,
                                    <<as_i32(settle.error)>>)
               \/ /\ settle.ok
                  /\ Len(frames) < DepthBound
                  /\ \E hasMem \in BOOLEAN :
                       frames' = PushFrame(
                           SetTop(frames, [drained.ctx EXCEPT !.callDepth = Len(frames)]),
                           NewFrame(pre.contract_id, hasMem))
                  /\ last' = Handed("Dispatch", ctx, pre, drained, <<>>)
          /\ UNCHANGED outcome

\* A faulty CallStatus, which C6 must tell apart: the result's arity is not checked.
CallStatus_FirstValue(res) ==
    IF res.ok
    THEN IF Len(res.values) = 0
         THEN as_i32("InvalidResult")
         ELSE IF res.values[1].ty = "I32"
              THEN res.values[1].v
              ELSE as_i32("InvalidResult")
    ELSE as_i32(res.error)

\* A faulty CallStatus, which C13 must tell apart: a callee's error is reported
\* as InvalidResult.
CallStatus_MasksError(res) ==
    IF res.ok
    THEN IF Len(res.values) # 1
         THEN as_i32("InvalidResult")
         ELSE IF res.values[1].ty = "I32"
              THEN res.values[1].v
              ELSE as_i32("InvalidResult")
    ELSE as_i32("InvalidResult")

\* CallContract's answer for what ctx.stack.call(...) returned.
CallStatus(res) ==
    IF res.ok
    THEN IF Len(res.values) # 1
         THEN as_i32("InvalidResult")
         ELSE IF res.values[1].ty = "I32"
              THEN res.values[1].v
              ELSE as_i32("InvalidResult")
    ELSE as_i32(res.error)

\* The running function ends with `res`.  In the first frame that is the
\* outcome of run("_constructor"); in a callee, stack.call pops the frame and
\* CallContract returns its status to the caller's guest code.
Finish(res) ==
    /\ Running
    /\ \/ /\ Len(frames) = 1
          /\ outcome' = [kind |-> IF res.ok THEN "Ok" ELSE "Err",
                         values |-> res.values, error |-> res.error]
          /\ last' = [op |-> "Run", ret |-> <<>>]
          /\ UNCHANGED frames
       \/ /\ Len(frames) > 1
          /\ LET popped == PopFrame(frames)
                 caller == popped[Len(popped)]
             IN  /\ frames' = SetTop(popped, AfterCall(caller))
                 /\ last' = [op |-> "CallContract", ret |-> <<CallStatus(res)>>,
                             stage |-> "call", error |-> res.error, result |-> res,
                             contract_id |-> Top.contract,
                             settled |-> TRUE, called |-> TRUE,
                             depthAtEntry |-> frames[Len(frames) - 1].callDepth,
                             calleeStaged |-> Len(Top.args) + Len(Top.payLog),
                             panicked |-> FALSE]
          /\ UNCHANGED outcome

GuestReturn(result) == Finish([ok |-> TRUE, values |-> result, error |-> "none"])

GuestTrap(error) == Finish([ok |-> FALSE, values |-> <<>>, error |-> error])

(***************************************************************************)
(* The utilities run in a frame whose memory holds two bytes of guest data *)
(* at its start; the host writes what it produces at the heap base, which  *)
(* the context moves past each written value.                              *)
(***************************************************************************)
UtilMemSize == 6

MaxWrites == 2

\* NUL, '1', 'X', and the two bytes of U+00E9, each of them alone not UTF-8
UtilBytes == {0, 49, 88, 195, 169}

HeapBases == {0, 2}

UtilRegions == {<<0, 0>>, <<0, 1>>, <<1, 1>>, <<0, 2>>, <<UtilMemSize, 1>>}

UtilMem(data) ==
    [i \in 0..(UtilMemSize - 1) |-> IF i \in DOMAIN data THEN data[i] ELSE 0]

UtilFrame(data, heap_base, hasMem) ==
    [hasMem |-> hasMem, mem |-> UtilMem(data), heap_base |-> heap_base, writes |-> 0]

(***************************************************************************)
(* The base58 codec the utilities call (utils.rs:34, :57) is the external  *)
(* crate `base58`, whose source is not among the files at hand.  It is     *)
(* modelled as the encoding the name stands for: the Bitcoin alphabet, one *)
(* leading '1' per leading zero byte, the rest a number in base 58.  The   *)
(* decoder works in a buffer of fixed size and refuses a value that does   *)
(* not fit it.  What is established with these definitions is established  *)
(* for this encoding, not for the crate's code.                            *)
(***************************************************************************)
\* ALPHABET[d]: the character of digit d
B58Char(d) ==
    CASE d < 9 -> 49 + d
      [] d >= 9 /\ d < 17 -> 65 + (d - 9)
      [] d >= 17 /\ d < 22 -> 74 + (d - 17)
      [] d >= 22 /\ d < 33 -> 80 + (d - 22)
      [] d >= 33 /\ d < 44 -> 97 + (d - 33)
      [] OTHER -> 109 + (d - 44)

\* B58_DIGITS_MAP[c]: the digit of character c, -1 for a character outside
\* the alphabet
B58Digit(c) ==
    CASE c >= 49 /\ c <= 57 -> c - 49
      [] c >= 65 /\ c <= 72 -> c - 65 + 9
      [] c >= 74 /\ c <= 78 -> c - 74 + 17
      [] c >= 80 /\ c <= 90 -> c - 80 + 22
      [] c >= 97 /\ c <= 107 -> c - 97 + 33
      [] c >= 109 /\ c <= 122 -> c - 109 + 44
      [] OTHER -> -1

\* digits (most significant first, in base `from`) divided by `to`
RECURSIVE LongDiv(_, _, _, _)
LongDiv(digits, from, to, rem) ==
    IF digits = <<>> THEN [q |-> <<>>, r |-> rem]
    ELSE LET cur == rem * from + digits[1]
             rest == LongDiv(Tail(digits), from, to, cur % to)
         IN  [q |-> <<cur \div to>> \o rest.q, r |-> rest.r]

RECURSIVE StripZeros(_)
StripZeros(digits) ==
    IF digits # <<>> /\ digits[1] = 0 THEN StripZeros(Tail(digits)) ELSE digits

\* the number `digits` in base `from`, written in base `to` without leading zeros
RECURSIVE ConvertBase(_, _, _)
ConvertBase(digits, from, to) ==
    IF StripZeros(digits) = <<>> THEN <<>>
    ELSE LET d == LongDiv(StripZeros(digits), from, to, 0)
         IN  Append(ConvertBase(d.q, from, to), d.r)

RECURSIVE LeadingCount(_, _)
LeadingCount(seq, v) ==
    IF seq # <<>> /\ seq[1] = v THEN 1 + LeadingCount(Tail(seq), v) ELSE 0

to_base58(bytes) ==
    LET zcount == LeadingCount(bytes, 0)
        number == ConvertBase(bytes, 256, 58)
    IN  [i \in 1..zcount |-> 49] \o [i \in 1..Len(number) |-> B58Char(number[i])]

\* the size in bytes of the decoder's work buffer
DecodeBuffer == 132

\* Err for a character outside the alphabet and for a value longer than the
\* work buffer, Ok(bytes) otherwise
from_base58(string) ==
    LET zcount == LeadingCount(string, 49)
        rest == SubSeq(string, zcount + 1, Len(string))
    IN  IF \E i \in 1..Len(rest) : B58Digit(rest[i]) = -1
        THEN [ok |-> FALSE, bytes |-> <<>>]
        ELSE LET number == ConvertBase([i \in 1..Len(rest) |-> B58Digit(rest[i])],
                                       58, 256)
             IN  IF zcount + Len(number) > DecodeBuffer
                 THEN [ok |-> FALSE, bytes |-> <<>>]
                 ELSE [ok |-> TRUE, bytes |-> [i \in 1..zcount |-> 0] \o number]

\* A faulty BytesEquals, which C17 must tell apart: left is only looked for at
\* the start of right.
BytesEquals_Prefix(offset_left, length_left, offset_right, length_right) ==
    /\ Running
    /\ LET input == <<offset_left, length_left, offset_right, length_right>>
       IN
       \/ /\ ~Top.hasMem
          /\ last' = Staged("BytesEquals", input, <<as_i32("MemoryNotFound"), 0>>)
          /\ UNCHANGED <<frames, outcome>>
       \/ /\ Top.hasMem
          /\ \/ ~InBounds(Top.mem, offset_left, length_left)
             \/ ~InBounds(Top.mem, offset_right, length_right)
          /\ Panic("BytesEquals", input)
       \/ /\ Top.hasMem
          /\ InBounds(Top.mem, offset_left, length_left)
          /\ InBounds(Top.mem, offset_right, length_right)
          /\ LET left == MemSlice(Top.mem, offset_left, length_left)
                 right == MemSlice(Top.mem, offset_right, length_right)
             IN  last' = Staged("BytesEquals", input,
                                <<0, IF /\ Len(left) <= Len(right)
                                        /\ left = SubSeq(right, 1, Len(left))
                                     THEN 1 ELSE 0>>)
          /\ UNCHANGED <<frames, outcome>>

BytesEquals(offset_left, length_left, offset_right, length_right) ==
    /\ Running
    /\ LET input == <<offset_left, length_left, offset_right, length_right>>
       IN
       \/ /\ ~Top.hasMem
          /\ last' = Staged("BytesEquals", input, <<as_i32("MemoryNotFound"), 0>>)
          /\ UNCHANGED <<frames, outcome>>
       \/ /\ Top.hasMem
          /\ \/ ~InBounds(Top.mem, offset_left, length_left)
             \/ ~InBounds(Top.mem, offset_right, length_right)
          /\ Panic("BytesEquals", input)
       \/ /\ Top.hasMem
          /\ InBounds(Top.mem, offset_left, length_left)
          /\ InBounds(Top.mem, offset_right, length_right)
          /\ LET left == MemSlice(Top.mem, offset_left, length_left)
                 right == MemSlice(Top.mem, offset_right, length_right)
             IN  last' = Staged("BytesEquals", input,
                                <<0, IF left = right THEN 1 ELSE 0>>)
          /\ UNCHANGED <<frames, outcome>>

\* A faulty StringEquals, which C18 must tell apart: only the left region is
\* checked to be UTF-8.
StringEquals_ChecksLeftOnly(offset_left, length_left, offset_right, length_right) ==
    /\ Running
    /\ LET input == <<offset_left, length_left, offset_right, length_right>>
       IN
       \/ /\ ~Top.hasMem
          /\ last' = Staged("StringEquals", input, <<as_i32("MemoryNotFound"), 0>>)
          /\ UNCHANGED <<frames, outcome>>
       \/ /\ Top.hasMem
          /\ \/ ~InBounds(Top.mem, offset_left, length_left)
             \/ /\ InBounds(Top.mem, offset_left, length_left)
                /\ IsUtf8(MemSlice(Top.mem, offset_left, length_left))
                /\ ~InBounds(Top.mem, offset_right, length_right)
          /\ Panic("StringEquals", input)
       \/ /\ Top.hasMem
          /\ InBounds(Top.mem, offset_left, length_left)
          /\ LET left == MemSlice(Top.mem, offset_left, length_left)
             IN  \/ /\ ~IsUtf8(left)
                    /\ last' = Staged("StringEquals", input, <<as_i32("Utf8Error"), 0>>)
                 \/ /\ IsUtf8(left)
                    /\ InBounds(Top.mem, offset_right, length_right)
                    /\ LET right == MemSlice(Top.mem, offset_right, length_right)
                       IN  last' = Staged("StringEquals", input,
                                 <<0, IF left = right THEN 1 ELSE 0>>)
          /\ UNCHANGED <<frames, outcome>>

StringEquals(offset_left, length_left, offset_right, length_right) ==
    /\ Running
    /\ LET input == <<offset_left, length_left, offset_right, length_right>>
       IN
       \/ /\ ~Top.hasMem
          /\ last' = Staged("StringEquals", input, <<as_i32("MemoryNotFound"), 0>>)
          /\ UNCHANGED <<frames, outcome>>
       \/ /\ Top.hasMem
          /\ \/ ~InBounds(Top.mem, offset_left, length_left)
             \/ /\ InBounds(Top.mem, offset_left, length_left)
                /\ IsUtf8(MemSlice(Top.mem, offset_left, length_left))
                /\ ~InBounds(Top.mem, offset_right, length_right)
          /\ Panic("StringEquals", input)
       \/ /\ Top.hasMem
          /\ InBounds(Top.mem, offset_left, length_left)
          /\ LET left == MemSlice(Top.mem, offset_left, length_left)
             IN  \/ /\ ~IsUtf8(left)
                    /\ last' = Staged("StringEquals", input, <<as_i32("Utf8Error"), 0>>)
                 \/ /\ IsUtf8(left)
                    /\ InBounds(Top.mem, offset_right, length_right)
                    /\ LET right == MemSlice(Top.mem, offset_right, length_right)
                       IN  last' = Staged("StringEquals", input,
                                 IF ~IsUtf8(right) THEN <<as_i32("Utf8Error"), 0>>
                                 ELSE <<0, IF left = right THEN 1 ELSE 0>>)
          /\ UNCHANGED <<frames, outcome>>

\* The event of a utility that writes: the bytes it read and the heap base it
\* found are kept with its answer.
WriteEvent(op, input, ret, read) ==
    [op |-> op, ret |-> ret, input |-> input, panicked |-> FALSE,
     read |-> read, heap_base |-> Top.heap_base]

\* memory[offset..offset + Len(bytes)].copy_from_slice(bytes)
Written(mem, offset, bytes) ==
    [i \in DOMAIN mem |-> IF i >= offset /\ i < offset + Len(bytes)
                          THEN bytes[i - offset + 1] ELSE mem[i]]

\* The error a failed write is answered with: the write protocol says
\* (error-code, 0, 0) and names no code; the memory error of the catalogue
\* stands for it.  The properties use only that its code is not 0.
WriteFailure == "MemoryNotFound"

\* write_memory!(ctx, memory, offset_memory, result), as the write protocol
\* is described: the bytes go to the heap base, the context moves the heap
\* base past them, the answer is (0, offset, length).  A write that fails,
\* the bytes not fitting between the heap base and the end of memory, is
\* answered with (error-code, 0, 0) and leaves memory and heap base alone.
write_memory(op, input, read, result) ==
    LET offset_memory == Top.heap_base
    IN  \/ /\ ~InBounds(Top.mem, offset_memory, Len(result))
           /\ last' = WriteEvent(op, input, <<as_i32(WriteFailure), 0, 0>>, read)
           /\ UNCHANGED <<frames, outcome>>
        \/ /\ InBounds(Top.mem, offset_memory, Len(result))
           /\ frames' = SetTop(frames,
                  [Top EXCEPT !.mem = Written(@, offset_memory, result),
                              !.heap_base = offset_memory + Len(result),
                              !.writes = @ + 1])
           /\ last' = WriteEvent(op, input, <<0, offset_memory, Len(result)>>, read)
           /\ UNCHANGED outcome

\* A faulty Base58, which C16 must tell apart: the bytes are not checked to be
\* UTF-8 before they are decoded.
Base58_SkipsUtf8(offset_bytes, length_bytes) ==
    /\ Running
    /\ Top.writes < MaxWrites
    /\ LET input == <<offset_bytes, length_bytes>>
       IN
       \/ /\ ~Top.hasMem
          /\ last' = WriteEvent("Base58", input, <<as_i32("MemoryNotFound"), 0, 0>>, <<>>)
          /\ UNCHANGED <<frames, outcome>>
       \/ /\ Top.hasMem
          /\ ~InBounds(Top.mem, offset_bytes, length_bytes)
          /\ Panic("Base58", input)
       \/ /\ Top.hasMem
          /\ InBounds(Top.mem, offset_bytes, length_bytes)
          /\ LET value == MemSlice(Top.mem, offset_bytes, length_bytes)
                 decoded == from_base58(value)
             IN  \/ /\ ~decoded.ok
                    /\ last' = WriteEvent("Base58", input,
                                          <<as_i32("Base58Error"), 0, 0>>, value)
                    /\ UNCHANGED <<frames, outcome>>
                 \/ /\ decoded.ok
                    /\ write_memory("Base58", input, value, decoded.bytes)

Base58(offset_bytes, length_bytes) ==
    /\ Running
    /\ Top.writes < MaxWrites
    /\ LET input == <<offset_bytes, length_bytes>>
       IN
       \/ /\ ~Top.hasMem
          /\ last' = WriteEvent("Base58", input, <<as_i32("MemoryNotFound"), 0, 0>>, <<>>)
          /\ UNCHANGED <<frames, outcome>>
       \/ /\ Top.hasMem
          /\ ~InBounds(Top.mem, offset_bytes, length_bytes)
          /\ Panic("Base58", input)
       \/ /\ Top.hasMem
          /\ InBounds(Top.mem, offset_bytes, length_bytes)
          /\ LET value == MemSlice(Top.mem, offset_bytes, length_bytes)
                 decoded == from_base58(value)
             IN  \/ /\ ~IsUtf8(value)
                    /\ last' = WriteEvent("Base58", input,
                                          <<as_i32("Utf8Error"), 0, 0>>, value)
                    /\ UNCHANGED <<frames, outcome>>
                 \/ /\ IsUtf8(value)
                    /\ ~decoded.ok
                    /\ last' = WriteEvent("Base58", input,
                                          <<as_i32("Base58Error"), 0, 0>>, value)
                    /\ UNCHANGED <<frames, outcome>>
                 \/ /\ IsUtf8(value)
                    /\ decoded.ok
                    /\ write_memory("Base58", input, value, decoded.bytes)

ToBase58String(offset_bytes, length_bytes) ==
    /\ Running
    /\ Top.writes < MaxWrites
    /\ LET input == <<offset_bytes, length_bytes>>
       IN
       \/ /\ ~Top.hasMem
          /\ last' = WriteEvent("ToBase58String", input,
                                <<as_i32("MemoryNotFound"), 0, 0>>, <<>>)
          /\ UNCHANGED <<frames, outcome>>
       \/ /\ Top.hasMem
          /\ ~InBounds(Top.mem, offset_bytes, length_bytes)
          /\ Panic("ToBase58String", input)
       \/ /\ Top.hasMem
          /\ InBounds(Top.mem, offset_bytes, length_bytes)
          /\ LET value == MemSlice(Top.mem, offset_bytes, length_bytes)
             IN  write_memory("ToBase58String", input, value, to_base58(value))

\* A faulty Concat, which C19 must tell apart: the left bytes are written
\* before the right bytes are read.
Concat_Streams(offset_left, length_left, offset_right, length_right) ==
    /\ Running
    /\ Top.writes < MaxWrites
    /\ LET input == <<offset_left, length_left, offset_right, length_right>>
       IN
       \/ /\ ~Top.hasMem
          /\ last' = WriteEvent("Concat", input, <<as_i32("MemoryNotFound"), 0, 0>>, <<>>)
          /\ UNCHANGED <<frames, outcome>>
       \/ /\ Top.hasMem
          /\ \/ ~InBounds(Top.mem, offset_left, length_left)
             \/ ~InBounds(Top.mem, offset_right, length_right)
          /\ Panic("Concat", input)
       \/ /\ Top.hasMem
          /\ InBounds(Top.mem, offset_left, length_left)
          /\ InBounds(Top.mem, offset_right, length_right)
          /\ LET left == MemSlice(Top.mem, offset_left, length_left)
                 right == MemSlice(Top.mem, offset_right, length_right)
                 late == MemSlice(Written(Top.mem, Top.heap_base, left),
                                  offset_right, length_right)
             IN  write_memory("Concat", input, <<left, right>>, left \o late)

Concat(offset_left, length_left, offset_right, length_right) ==
    /\ Running
    /\ Top.writes < MaxWrites
    /\ LET input == <<offset_left, length_left, offset_right, length_right>>
       IN
       \/ /\ ~Top.hasMem
          /\ last' = WriteEvent("Concat", input, <<as_i32("MemoryNotFound"), 0, 0>>, <<>>)
          /\ UNCHANGED <<frames, outcome>>
       \/ /\ Top.hasMem
          /\ \/ ~InBounds(Top.mem, offset_left, length_left)
             \/ ~InBounds(Top.mem, offset_right, length_right)
          /\ Panic("Concat", input)
       \/ /\ Top.hasMem
          /\ InBounds(Top.mem, offset_left, length_left)
          /\ InBounds(Top.mem, offset_right, length_right)
          /\ LET left == MemSlice(Top.mem, offset_left, length_left)
                 right == MemSlice(Top.mem, offset_right, length_right)
             IN  write_memory("Concat", input, <<left, right>>, left \o right)

Next ==
    \/ \E value \in IntValues : CallArgInt(value)
    \/ \E value \in BoolValues : CallArgBool(value)
    \/ \E r \in Regions : CallArgBinary(r[1], r[2])
    \/ \E r \in Regions : CallArgString(r[1], r[2])
    \/ \E r \in Regions, amount \in Amounts : CallPayment(r[1], r[2], amount)
    \/ \E c \in Regions, f \in Regions : CallContract(c[1], c[2], f[1], f[2])
    \/ \E result \in Results : GuestReturn(result)
    \/ \E error \in CallErrors : GuestTrap(error)

Spec == Init /\ [][Next]_vars

\* The utilities touch neither args nor payments and run in specifications of
\* their own: the comparisons over every two bytes of guest data, the writing
\* ones over the data and over the region the previous one wrote.
RunningUtil == [kind |-> "Running", values |-> <<>>, error |-> "none"]

InitUtils ==
    /\ \/ frames = <<UtilFrame(<<>>, 0, FALSE)>>
       \/ \E data \in [0..1 -> UtilBytes], heap_base \in HeapBases :
              frames = <<UtilFrame(data, heap_base, TRUE)>>
    /\ last = NoEvent
    /\ outcome = RunningUtil

NextUtils ==
    \/ \E l \in UtilRegions, r \in UtilRegions : BytesEquals(l[1], l[2], r[1], r[2])
    \/ \E l \in UtilRegions, r \in UtilRegions : StringEquals(l[1], l[2], r[1], r[2])

SpecUtils == InitUtils /\ [][NextUtils]_vars

WriteOps == {"Base58", "ToBase58String", "Concat"}

\* the region the guest was told the last value was written to
LastWritten ==
    IF last.op \in WriteOps /\ ~last.panicked /\ last.ret[1] = 0
    THEN {<<last.ret[2], last.ret[3]>>}
    ELSE {}

NextWrite ==
    \/ \E r \in UtilRegions \cup LastWritten : Base58(r[1], r[2])
    \/ \E r \in UtilRegions \cup LastWritten : ToBase58String(r[1], r[2])
    \/ \E l \in UtilRegions, r \in UtilRegions : Concat(l[1], l[2], r[1], r[2])

SpecWrite == InitUtils /\ [][NextWrite]_vars

(***************************************************************************)
(* Vocabulary of the properties.                                           *)
(***************************************************************************)
\* The ledger the spec describes for a sequence of declarations: one entry
\* per distinct asset, holding the sum of the amounts declared for it.
RECURSIVE SumFor(_, _)
SumFor(log, asset_id) ==
    IF log = <<>> THEN 0
    ELSE (IF log[1][1] = asset_id THEN log[1][2] ELSE 0) + SumFor(Tail(log), asset_id)

LedgerOf(log) == [a \in {log[i][1] : i \in 1..Len(log)} |-> SumFor(log, a)]

\* The last event is a CallContract that drained and handed its payments to
\* settlement (and, when settlement accepted them, its args to the callee).
HandOver ==
    \/ last.op = "Dispatch"
    \/ (last.op = "CallContract" /\ ~last.panicked /\ last.stage = "settle")

\* The last event is a CallContract that returned to its caller's guest code.
Returned == last.op = "CallContract" /\ ~last.panicked

\* ... after ctx.stack.call(...) ran the callee.
ReturnedFromCallee == Returned /\ last.called

(***************************************************************************)
(* C1.  Staged args and payments never cross a CallContract invocation:    *)
(* what a CallContract hands to settlement and to the callee is exactly    *)
(* what was staged since the frame's previous CallContract invocation,     *)
(* whatever that invocation's outcome was.                                 *)
(***************************************************************************)
C1_DeliversOnlyFreshlyStaged ==
    HandOver => /\ last.input_data = last.freshArgs
                /\ last.payments = LedgerOf(last.freshPays)

(***************************************************************************)
(* C2.  Every host function is total: whatever (offset, length) the guest  *)
(* passes, the call returns a status and the host never aborts.            *)
(***************************************************************************)
C2_HostFunctionsNeverAbort == outcome.kind # "Panic"

(***************************************************************************)
(* C3.  CallArgBinary and CallArgString on a frame with memory: in bounds  *)
(* they return 0 and append exactly one entry holding the referenced bytes *)
(* (earlier entries, payments and the other frames unchanged); out of      *)
(* bounds they return MemoryNotFound and append nothing.                   *)
(***************************************************************************)
C3_StagesSliceOrMemoryNotFound ==
    [][(last'.op \in {"CallArgBinary", "CallArgString"} /\ Top.hasMem) =>
          LET offset == last'.input[1]
              length == last'.input[2]
              bytes == [i \in 1..length |-> MemByte(offset + i - 1)]
              entry == [type |-> IF last'.op = "CallArgBinary" THEN "Binary" ELSE "String",
                        value |-> bytes]
          IN  IF offset + length <= MemSize
              THEN /\ last'.ret = <<0>>
                   /\ frames' = [frames EXCEPT ![Len(frames)].args = Append(@, entry)]
              ELSE /\ last'.ret = <<as_i32("MemoryNotFound")>>
                   /\ frames' = frames
                   /\ outcome' = outcome]_vars

(***************************************************************************)
(* C4.  CallArgString validates UTF-8 at ingestion, so every String entry  *)
(* staged in any frame is valid UTF-8.                                     *)
(***************************************************************************)
C4_StringEntriesAreUtf8 ==
    \A d \in 1..Len(frames) : \A i \in 1..Len(frames[d].args) :
        frames[d].args[i].type = "String" => IsUtf8(frames[d].args[i].value)

(***************************************************************************)
(* C5.  The ledger holds, per distinct asset, the sum of all amounts       *)
(* declared for it since the last drain, in every frame and in what a      *)
(* CallContract hands to settlement; a declaration with memory attached    *)
(* and its asset id in bounds is accepted whatever its amount (zero and    *)
(* negative included).                                                     *)
(***************************************************************************)
C5_LedgerSumsDeclarations ==
    /\ \A d \in 1..Len(frames) : frames[d].payments = LedgerOf(frames[d].payLog)
    /\ HandOver => last.payments = LedgerOf(last.declared)
    /\ (last.op = "CallPayment" /\ ~last.panicked /\ Top.hasMem) =>
          /\ last.ret = <<0>>
          /\ Top.payLog # <<>>
          /\ Top.payLog[Len(Top.payLog)] =
                <<[i \in 1..last.input[2] |-> MemByte(last.input[1] + i - 1)],
                  last.input[3]>>

\* 3 then 4 declared for asset "X" reach settlement as ("X", 7).
C5_Witness ==
    /\ last.op = "Dispatch"
    /\ last.declared = <<<<(<<88>>), 3>>, <<(<<88>>), 4>>>>
    /\ last.payments[<<88>>] = 7

\* A zero and a negative amount are summed as well.
C5_WitnessNegative ==
    /\ HandOver
    /\ last.declared = <<<<(<<255>>), 0>>, <<(<<255>>), -1>>>>
    /\ last.payments[<<255>>] = -1

(***************************************************************************)
(* C6.  When the callee ran to completion, CallContract returns its result *)
(* verbatim if that result is exactly one I32 value, and InvalidResult     *)
(* for any other arity or type.                                            *)
(***************************************************************************)
C6_OneI32OrInvalidResult ==
    (ReturnedFromCallee /\ last.result.ok) =>
        LET values == last.result.values
        IN  /\ (Len(values) = 1 /\ values[1].ty = "I32") => last.ret = <<values[1].v>>
            /\ (Len(values) # 1 \/ values[1].ty # "I32") =>
                   last.ret = <<as_i32("InvalidResult")>>

C6_Witness ==
    /\ ReturnedFromCallee
    /\ last.result.ok
    /\ last.result.values = <<I32(0)>>
    /\ last.ret = <<0>>

(***************************************************************************)
(* C7.  A contract id the registry does not recognise: CallContract        *)
(* returns the registry's error code, nothing is handed to settlement, no  *)
(* callee is instantiated, and the stack is as deep as before the call.    *)
(***************************************************************************)
C7_UnknownContractReturnsRegistryError ==
    (/\ last.op \in {"CallContract", "Dispatch"}
     /\ ~last.panicked
     /\ frames[last.depthAtEntry].hasMem
     /\ last.contract_id \notin KnownContracts) =>
        /\ last.op = "CallContract"
        /\ last.ret = <<as_i32(get_bytecode(last.contract_id).error)>>
        /\ ~last.settled
        /\ ~last.called
        /\ Len(frames) = last.depthAtEntry

\* In a nested frame with something staged.
C7_Witness ==
    /\ Returned
    /\ last.contract_id = <<255>>
    /\ last.ret = <<as_i32("ContractNotFound")>>
    /\ Len(frames) = 2
    /\ Top.args # <<>>

(***************************************************************************)
(* C8.  Every frame pushed for a callee is popped before its CallContract  *)
(* returns, whatever the callee's outcome: when CallContract returns, the  *)
(* stack is as deep as at its entry, and the stack is always the chain of  *)
(* pending calls in call order (frame d waits in the CallContract it       *)
(* issued at depth d, the last frame runs).                                *)
(***************************************************************************)
C8_FramesPoppedInOrder ==
    /\ Returned => Len(frames) = last.depthAtEntry
    /\ \A d \in 1..Len(frames) :
          frames[d].callDepth = IF d < Len(frames) THEN d ELSE 0

\* A callee two calls deep failed and its caller, itself a callee, runs on.
C8_Witness ==
    /\ ReturnedFromCallee
    /\ ~last.result.ok
    /\ last.depthAtEntry = 2
    /\ Len(frames) = 2

(***************************************************************************)
(* C9.  Fuel exhaustion in a callee ends the whole call chain: once        *)
(* stack.call has failed with it, the only thing that happens is the run   *)
(* ending with that same failure; the caller's guest code does not go on.  *)
(***************************************************************************)
C9_FuelExhaustionEndsTheChain ==
    [][(ReturnedFromCallee /\ last.error = "FuelExhausted") =>
          /\ outcome'.kind = "Err"
          /\ outcome'.error = "FuelExhausted"]_vars

(***************************************************************************)
(* C10.  The call stack never grows past an explicit maximum: whatever     *)
(* that maximum is, take it one below the depth the model explores.        *)
(***************************************************************************)
MaxCallDepth == DepthBound - 1

C10_DepthWithinMaximum == Len(frames) <= MaxCallDepth
(***************************************************************************)
(* C11: within one frame the staging functions keep strict call order:     *)
(* each of CallArgInt, CallArgBool, CallArgBinary and CallArgString puts   *)
(* its entry, type and value as given, behind everything staged before,    *)
(* whatever the interleaving, and what the callee decodes from its input   *)
(* data is the caller's staged sequence, entry for entry.                  *)
(***************************************************************************)
ArgOps == {"CallArgInt", "CallArgBool", "CallArgBinary", "CallArgString"}

\* The entry a successful staging call was asked to push.
PushedEntry(event) ==
    CASE event.op = "CallArgInt" -> Integer(event.input[1])
      [] event.op = "CallArgBool" -> Boolean(event.input[1])
      [] event.op = "CallArgBinary" ->
            Binary([i \in 1..event.input[2] |-> MemByte(event.input[1] + i - 1)])
      [] event.op = "CallArgString" ->
            String([i \in 1..event.input[2] |-> MemByte(event.input[1] + i - 1)])

C11_ArgsDecodedInPushOrder ==
    [][ /\ (last'.op \in ArgOps /\ ~last'.panicked /\ last'.ret \in {<<>>, <<0>>})
            => Top'.args = Append(Top.args, PushedEntry(last'))
        /\ (last'.op = "Dispatch")
            => /\ last'.decoded = Top.args
               /\ \A n \in 1..Len(Top.args) :
                    /\ last'.decoded[n].type = Top.args[n].type
                    /\ last'.decoded[n].value = Top.args[n].value ]_vars

\* A string staged first and an integer staged second reached the callee in
\* that order.
C11_Witness ==
    /\ last.op = "Dispatch"
    /\ Len(last.decoded) = 2
    /\ last.decoded[1].type = "String"
    /\ last.decoded[1].value = <<88>>
    /\ last.decoded[2].type = "Integer"
    /\ last.decoded[2].value = 2

(***************************************************************************)
(* C12: staging by a callee, or by anything it calls in turn, changes the  *)
(* callee's own frame only: no step changes the args or payments of a      *)
(* frame below the running one, so that when a nested CallContract returns *)
(* its caller's args and payments are what they were at the dispatch.      *)
(***************************************************************************)
C12_CalleeStagingIsIsolated ==
    [][ /\ \A d \in 1..(Len(frames) - 1) :
              d <= Len(frames')
              => /\ frames'[d].args = frames[d].args
                 /\ frames'[d].payments = frames[d].payments
        /\ ReturnedFromCallee'
            => /\ Top'.args = frames[Len(frames) - 1].args
               /\ Top'.payments = frames[Len(frames) - 1].payments ]_vars

\* A re-entrant callee that had staged something has returned to its caller.
C12_Witness ==
    /\ ReturnedFromCallee
    /\ last.calleeStaged > 0
    /\ Len(frames) = 2
    /\ last.contract_id = Top.contract
    /\ Top.args = <<>>
    /\ Top.payments = EmptyLedger

(***************************************************************************)
(* C13: a sentinel code returned by CallContract tells that this host-side *)
(* failure occurred.                                                       *)
(***************************************************************************)
HostErrors == {"MemoryNotFound", "Utf8Error", "ContractNotFound", "SettlementError",
               "InvalidResult", "FuelExhausted", "InvalidBytecode"}

SentinelCodes == {as_i32(e) : e \in HostErrors}

\* The failure that occurred in the CallContract invocation that just returned.
Occurred ==
    IF last.called
    THEN IF ~last.result.ok THEN last.result.error
         ELSE IF Len(last.result.values) = 1 /\ last.result.values[1].ty = "I32"
              THEN "none"
              ELSE "InvalidResult"
    ELSE last.error

\* C13 as stated: whenever CallContract returns a value equal to a sentinel
\* code, the failure of that code occurred; a callee's own status is never
\* taken for one.
C13_SentinelMeansHostFailure ==
    (Returned /\ last.ret[1] \in SentinelCodes)
    => (Occurred # "none" /\ as_i32(Occurred) = last.ret[1])

\* C13 as the code has it: a sentinel code returned by CallContract is either
\* the code of the failure that occurred, or the single 32-bit integer the
\* callee itself returned, passed on unchanged.
C13_SentinelOrCalleeStatus ==
    (Returned /\ last.ret[1] \in SentinelCodes)
    => \/ (Occurred # "none" /\ as_i32(Occurred) = last.ret[1])
       \/ (last.called /\ last.result.ok
            /\ last.result.values = <<I32(last.ret[1])>>)

\* A callee returned the number that is also the code of InvalidResult.
C13_Witness ==
    /\ ReturnedFromCallee
    /\ last.result.ok
    /\ last.result.values = <<I32(as_i32("InvalidResult"))>>
    /\ last.ret = <<as_i32("InvalidResult")>>

(***************************************************************************)
(* Vocabulary of the utilities' properties.                                *)
(***************************************************************************)
\* the characters of the base58 alphabet: digits and letters without 0, I, O, l
Base58Alphabet == (49..57) \cup (65..72) \cup (74..78) \cup (80..90)
                  \cup (97..107) \cup (109..122)

IsBase58(string) == \A i \in 1..Len(string) : string[i] \in Base58Alphabet

\* what a writing utility is to produce from the bytes it read
Produced(event) ==
    CASE event.op = "Base58" -> from_base58(event.read).bytes
      [] event.op = "ToBase58String" -> to_base58(event.read)
      [] event.op = "Concat" -> event.read[1] \o event.read[2]

(***************************************************************************)
(* C14: every call of Base58, ToBase58String or Concat returns either      *)
(* (0, offset, length), where offset is the heap base the call found and   *)
(* memory[offset .. offset+length) holds exactly the bytes produced, or    *)
(* (code, 0, 0) with a code other than 0.                                  *)
(***************************************************************************)
C14_WriteProtocolShape ==
    [][ last'.op \in WriteOps
        => /\ ~last'.panicked
           /\ Len(last'.ret) = 3
           /\ \/ /\ last'.ret[1] = 0
                 /\ last'.ret[2] = Top.heap_base
                 /\ InBounds(Top'.mem, last'.ret[2], last'.ret[3])
                 /\ MemSlice(Top'.mem, last'.ret[2], last'.ret[3]) = Produced(last')
              \/ /\ last'.ret[1] # 0
                 /\ last'.ret[2] = 0
                 /\ last'.ret[3] = 0 ]_vars

(***************************************************************************)
(* C16 as stated: for every input read from memory that is not a valid     *)
(* base58 string, Base58 returns (Base58Error, 0, 0) and writes nothing.   *)
(***************************************************************************)
C16_InvalidInputIsBase58Error ==
    [][ (last'.op = "Base58" /\ ~last'.panicked /\ ~IsBase58(last'.read))
        => /\ last'.ret = <<as_i32("Base58Error"), 0, 0>>
           /\ frames' = frames ]_vars

\* C16 as the code has it: input that is not UTF-8 is answered with
\* (Utf8Error, 0, 0), input that is UTF-8 but not base58 with
\* (Base58Error, 0, 0); in both cases nothing is written.
C16_InvalidInputRejected ==
    [][ (last'.op = "Base58" /\ ~last'.panicked /\ ~IsBase58(last'.read))
        => /\ last'.ret = <<IF IsUtf8(last'.read) THEN as_i32("Base58Error")
                                                  ELSE as_i32("Utf8Error"), 0, 0>>
           /\ frames' = frames ]_vars

\* Base58 read a byte that is not UTF-8, and so not base58 either.
C16_Witness ==
    /\ last.op = "Base58"
    /\ ~last.panicked
    /\ last.read = <<195>>
    /\ last.ret = <<as_i32("Utf8Error"), 0, 0>>
    /\ Top.writes = 0

(***************************************************************************)
(* C17: over regions within memory BytesEquals is reflexive (a region      *)
(* equals itself) and symmetric (swapping the regions gives the same       *)
(* answer), answers (0, 0) for regions of different length, and changes    *)
(* neither memory nor the execution context.                               *)
(***************************************************************************)
Swapped(input) == <<input[3], input[4], input[1], input[2]>>

C17_BytesEqualsIsAnEquivalenceTest ==
    [][ (last'.op = "BytesEquals" /\ ~last'.panicked /\ Top.hasMem)
        => /\ frames' = frames
           /\ outcome' = outcome
           /\ last'.ret[1] = 0
           /\ last'.ret[2] \in {0, 1}
           /\ (last'.input[1] = last'.input[3] /\ last'.input[2] = last'.input[4])
              => last'.ret = <<0, 1>>
           /\ (last'.input[2] # last'.input[4]) => last'.ret = <<0, 0>>
           /\ (last.op = "BytesEquals" /\ ~last.panicked
               /\ last.input = Swapped(last'.input))
              => last'.ret = last.ret ]_vars

\* Two regions of different length, both within memory, were compared.
C17_Witness ==
    /\ last.op = "BytesEquals"
    /\ ~last.panicked
    /\ last.input = <<0, 1, 0, 2>>
    /\ last.ret = <<0, 0>>

(***************************************************************************)
(* C18: over regions within memory StringEquals answers (Utf8Error, 0)     *)
(* whenever one of the two regions is not valid UTF-8, also when the two   *)
(* are byte for byte the same, and otherwise (0, b) where b is 1 exactly   *)
(* for byte-equal regions; BytesEquals never fails on what the bytes are.  *)
(***************************************************************************)
C18_StringEqualsValidatesBothSides ==
    /\ (/\ last.op = "StringEquals"
        /\ ~last.panicked
        /\ Top.hasMem
        /\ InBounds(Top.mem, last.input[1], last.input[2])
        /\ InBounds(Top.mem, last.input[3], last.input[4]))
       => LET left == MemSlice(Top.mem, last.input[1], last.input[2])
              right == MemSlice(Top.mem, last.input[3], last.input[4])
          IN  IF IsUtf8(left) /\ IsUtf8(right)
              THEN last.ret = <<0, IF left = right THEN 1 ELSE 0>>
              ELSE last.ret = <<as_i32("Utf8Error"), 0>>
    /\ (last.op = "BytesEquals" /\ ~last.panicked /\ Top.hasMem)
       => last.ret[1] = 0

\* Two regions holding the same byte, which is not UTF-8, were compared.
C18_Witness ==
    /\ last.op = "StringEquals"
    /\ ~last.panicked
    /\ last.input = <<0, 1, 1, 1>>
    /\ Top.mem[0] = 195
    /\ Top.mem[1] = 195
    /\ last.ret = <<as_i32("Utf8Error"), 0>>

C20_RunYieldsResultOrError ==
    /\ outcome.kind \in {"Running", "Ok", "Err"}
    /\ (outcome.kind = "Err") => (outcome.values = <<>> /\ outcome.error # "none")
    /\ (outcome.kind = "Ok") => (outcome.error = "none")
    /\ (last.op = "Entry")
       => IF \E i \in 1..Len(last.declared) : last.declared[i] \notin {"i32", "i64"}
          THEN /\ outcome.kind = "Err"
               /\ outcome.error = "InvalidBytecode"
          ELSE /\ outcome.kind = "Running"
               /\ Len(last.passed) = Len(last.declared)
               /\ (last.params = TestKeyOne /\ last.declared = <<"i32">>)
                  => last.passed = <<I32(1)>>

(***************************************************************************)
(* C21: inside one CallContract the external steps come in a fixed order   *)
(* and stop at the first failure: bytecode resolution, function-name       *)
(* decoding, settlement of the drained payments, invocation of the callee. *)
(* Settlement is not attempted when resolution or decoding failed, the     *)
(* callee is not invoked when settlement failed, a settlement failure is   *)
(* returned as its own code, and an unknown contract with a name that is   *)
(* not UTF-8 returns the registry's error.                                 *)
(***************************************************************************)
\* The last event is a CallContract seen before its callee ran: an early
\* return, a failed settlement or the dispatch.
Attempted ==
    \/ last.op = "Dispatch"
    \/ (last.op = "CallContract" /\ ~last.panicked /\ ~last.called)

\* the frame that made the call
CallerCtx == IF last.op = "Dispatch" THEN frames[Len(frames) - 1] ELSE Top

ContractRead == InBounds(CallerCtx.mem, last.input[1], last.input[2])

ContractKnown ==
    MemSlice(CallerCtx.mem, last.input[1], last.input[2]) \in KnownContracts

NameRead == InBounds(CallerCtx.mem, last.input[3], last.input[4])

NameValid == IsUtf8(MemSlice(CallerCtx.mem, last.input[3], last.input[4]))

C21_StepsInOrderStopAtFirstFailure ==
    /\ (Attempted /\ CallerCtx.hasMem)
       => /\ (ContractRead /\ ~ContractKnown)
             => /\ last.op = "CallContract"
                /\ ~last.settled
                /\ ~last.called
                /\ last.ret = <<as_i32("ContractNotFound")>>
          /\ (ContractRead /\ ContractKnown /\ NameRead /\ ~NameValid)
             => /\ last.op = "CallContract"
                /\ ~last.settled
                /\ ~last.called
                /\ last.ret = <<as_i32("Utf8Error")>>
          /\ last.settled
             => (ContractRead /\ ContractKnown /\ NameRead /\ NameValid)
          /\ (last.op = "CallContract" /\ last.settled)
             => /\ ~last.called
                /\ last.ret = <<as_i32("SettlementError")>>
                /\ last.ret[1] \notin {as_i32(e) : e \in HostErrors \ {"SettlementError"}}
          /\ last.called => last.settled
    /\ ReturnedFromCallee => last.settled

\* A contract that is unknown was called by a name that is not UTF-8.
C21_Witness ==
    /\ last.op = "CallContract"
    /\ ~last.panicked
    /\ ~last.called
    /\ Top.hasMem
    /\ last.input = <<1, 1, 1, 1>>
    /\ MemSlice(Top.mem, 1, 1) \notin KnownContracts
    /\ ~IsUtf8(MemSlice(Top.mem, 1, 1))
    /\ last.ret = <<as_i32("ContractNotFound")>>

(***************************************************************************)
(* C22: when CallContract returns, the calling frame's staged args and     *)
(* payments are what they were before the call if the call failed before   *)
(* the drain (no memory, registry error, function name not UTF-8), and are *)
(* both empty in every other outcome: after a failed settlement, although  *)
(* the callee never ran, and after the callee returned.                    *)
(***************************************************************************)
\* The call with the given offsets, made by ctx, fails before the drain.
FailsBeforeDrain(ctx, input) ==
    \/ ~ctx.hasMem
    \/ /\ InBounds(ctx.mem, input[1], input[2])
       /\ MemSlice(ctx.mem, input[1], input[2]) \notin KnownContracts
    \/ /\ InBounds(ctx.mem, input[1], input[2])
       /\ InBounds(ctx.mem, input[3], input[4])
       /\ ~IsUtf8(MemSlice(ctx.mem, input[3], input[4]))

C22_StagedStateAfterReturn ==
    [][ /\ (last'.op = "CallContract" /\ ~last'.panicked /\ ~last'.called)
           => IF FailsBeforeDrain(Top, last'.input)
              THEN /\ Top'.args = Top.args
                   /\ Top'.payments = Top.payments
              ELSE /\ Top'.args = <<>>
                   /\ Top'.payments = EmptyLedger
        /\ ReturnedFromCallee'
           => /\ Top'.args = <<>>
              /\ Top'.payments = EmptyLedger ]_vars

\* Settlement failed for a call that had an argument and a payment staged:
\* both are gone from the caller.
C22_Witness ==
    /\ last.op = "CallContract"
    /\ ~last.panicked
    /\ ~last.called
    /\ last.settled
    /\ last.input_data # <<>>
    /\ last.payments # EmptyLedger
    /\ Top.args = <<>>
    /\ Top.payments = EmptyLedger

====
